---- MODULE Spec2Model ----
(***************************************************************************)
(* Model of the image optimizer API (express + multer + sharp).            *)
(*                                                                         *)
(* src/server.js holds two builds of the server: the iterative one, whose  *)
(* size controller is ensureMaxSize (lines 1-219; src/unnamed/part_000 is  *)
(* the same build with its comments and its documentation), and the fast   *)
(* one, whose controller is fastOptimize (lines 221-502).  A request is    *)
(* served by one of the two builds.                                        *)
(*                                                                         *)
(* A request runs through: the multer middleware, the route handler up to  *)
(* its first await, one step per completed await (metadata(), toBuffer()), *)
(* and the sending of the response.  Strings are sequences of one-letter   *)
(* strings, so that parseInt, toLowerCase and startsWith are computed.     *)
(***************************************************************************)
EXTENDS Integers, Sequences, FiniteSets, TLC

(***************************************************************************)
(* Program constants                                                       *)
(***************************************************************************)
MAX_OUTPUT_SIZE == 9 * 1024 * 1024

fileSize == 500 * 1024 * 1024

maxAttempts == 15

(***************************************************************************)
(* Bounds of the model                                                     *)
(***************************************************************************)
\* number of requests served on one connection
MaxRequests == 1

\* the connections of the model
ReqIds == {1, 2}

(***************************************************************************)
(* JavaScript values                                                       *)
(***************************************************************************)
\* a form field: undefined, or a string
Undef == [def |-> FALSE, s |-> <<>>]

Str(chars) == [def |-> TRUE, s |-> chars]

\* a number, NaN or null
Num(k) == [t |-> "num", n |-> k]

NaN == [t |-> "nan", n |-> 0]

Null == [t |-> "null", n |-> 0]

\* ToBoolean of a number, NaN or null
Truthy(v) == v.t = "num" /\ v.n # 0

\* ToBoolean of a form field: undefined and '' are falsy
TruthyStr(f) == f.def /\ Len(f.s) > 0

\* a || b on numbers
OrElse(a, b) == IF Truthy(a) THEN a ELSE b

DigitChars == <<"0", "1", "2", "3", "4", "5", "6", "7", "8", "9">>

IsDigit(c) == \E i \in 1..10 : DigitChars[i] = c

DigitVal(c) == (CHOOSE i \in 1..10 : DigitChars[i] = c) - 1

\* the value of the longest prefix of digits of s from position i on
RECURSIVE DigitsFrom(_, _, _)
DigitsFrom(s, i, acc) ==
    IF i > Len(s) \/ ~IsDigit(s[i]) THEN acc
    ELSE DigitsFrom(s, i + 1, 10 * acc + DigitVal(s[i]))

\* parseInt(field): an optional sign, then the longest prefix of decimal
\* digits; NaN when there is no digit (undefined reads as 'undefined')
parseInt(f) ==
    IF ~f.def \/ Len(f.s) = 0 THEN NaN
    ELSE LET neg   == f.s[1] = "-"
             start == IF f.s[1] \in {"-", "+"} THEN 2 ELSE 1
         IN  IF start > Len(f.s) \/ ~IsDigit(f.s[start]) THEN NaN
             ELSE IF neg THEN Num(0 - DigitsFrom(f.s, start, 0))
             ELSE Num(DigitsFrom(f.s, start, 0))

UpperChars ==
    <<"A", "B", "C", "D", "E", "F", "G", "H", "I", "J", "K", "L", "M",
      "N", "O", "P", "Q", "R", "S", "T", "U", "V", "W", "X", "Y", "Z">>

LowerChars ==
    <<"a", "b", "c", "d", "e", "f", "g", "h", "i", "j", "k", "l", "m",
      "n", "o", "p", "q", "r", "s", "t", "u", "v", "w", "x", "y", "z">>

LowerChar(c) ==
    IF \E i \in 1..26 : UpperChars[i] = c
    THEN LowerChars[CHOOSE i \in 1..26 : UpperChars[i] = c]
    ELSE c

\* String.prototype.toLowerCase
toLowerCase(s) == [i \in 1..Len(s) |-> LowerChar(s[i])]

\* String.prototype.startsWith
startsWith(s, p) == Len(s) >= Len(p) /\ SubSeq(s, 1, Len(p)) = p

(***************************************************************************)
(* Requests                                                                *)
(***************************************************************************)
Variants == {"iterative", "fast"}

Routes == {"optimize", "resize", "convert"}

NoFile == [present |-> FALSE, mimetype |-> <<>>, size |-> 0, nw |-> 0, nh |-> 0]

\* the uploads of the model: the multipart file part, with the dimensions
\* of the image it holds
Files ==
    { NoFile,
      [present |-> TRUE, mimetype |-> <<"i","m","a","g","e","/","p","n","g">>,
       size |-> 20 * 1024 * 1024, nw |-> 1000, nh |-> 4000],
      [present |-> TRUE, mimetype |-> <<"i","m","a","g","e","/","j","p","e","g">>,
       size |-> fileSize, nw |-> 10000, nh |-> 5000],
      [present |-> TRUE, mimetype |-> <<"i","m","a","g","e","/","p","n","g">>,
       size |-> fileSize + 1, nw |-> 10000, nh |-> 5000],
      [present |-> TRUE, mimetype |-> <<"t","e","x","t","/","p","l","a","i","n">>,
       size |-> 1024, nw |-> 0, nh |-> 0],
      [present |-> TRUE, mimetype |-> <<"t","e","x","t","/","p","l","a","i","n">>,
       size |-> fileSize + 1, nw |-> 0, nh |-> 0] }

\* originals of 300, 52 and 20.8 megapixels, each wider than the width
\* fastOptimize caps it at; they are sent to the fast build, the only one
\* that reads the pixel count
LargeFiles ==
    { [present |-> TRUE, mimetype |-> <<"i","m","a","g","e","/","p","n","g">>,
       size |-> 30 * 1024 * 1024, nw |-> 20000, nh |-> 15000],
      [present |-> TRUE, mimetype |-> <<"i","m","a","g","e","/","p","n","g">>,
       size |-> 30 * 1024 * 1024, nw |-> 13000, nh |-> 4000],
      [present |-> TRUE, mimetype |-> <<"i","m","a","g","e","/","p","n","g">>,
       size |-> 30 * 1024 * 1024, nw |-> 16000, nh |-> 1300] }

\* req.body.quality
QualityFields ==
    { Undef, Str(<<"0">>), Str(<<"1","5","0">>), Str(<<"1","0","0">>),
      Str(<<"5","5">>), Str(<<"3","0">>) }

\* req.body.format
FormatFields ==
    { Undef, Str(<<"j","p","e","g">>), Str(<<"P","N","G">>), Str(<<"g","i","f">>) }

\* req.body.width
WidthFields ==
    { Undef, Str(<<"8","0","0">>), Str(<<"3","0","0","0">>), Str(<<"-","5">>),
      Str(<<"1">>) }

\* req.body.height
HeightFields == { Undef, Str(<<"2","0","0","0">>), Str(<<"6","0","0">>) }

\* req.body.fit
FitFields == { Undef, Str(<<"f","i","l","l">>) }

\* the requests two clients send at the same time: no file, an image for the
\* iterative build with the default quality or quality 55, an image for the
\* fast build
ConcurrentRequests ==
    LET image == [present |-> TRUE, mimetype |-> <<"i","m","a","g","e","/","p","n","g">>,
                  size |-> 20 * 1024 * 1024, nw |-> 1000, nh |-> 4000]
        base  == [variant |-> "iterative", route |-> "optimize", file |-> NoFile,
                  quality |-> Undef, format |-> Undef, width |-> Undef,
                  height |-> Undef, fit |-> Undef]
    IN  { base,
          [base EXCEPT !.file = image],
          [base EXCEPT !.file = image, !.quality = Str(<<"5","5">>)],
          [base EXCEPT !.file = image, !.variant = "fast"] }

NoRequest ==
    [variant |-> "iterative", route |-> "optimize", file |-> NoFile,
     quality |-> Undef, format |-> Undef, width |-> Undef, height |-> Undef,
     fit |-> Undef]

(***************************************************************************)
(* State                                                                   *)
(***************************************************************************)
VARIABLES
    active,         \* the connections of this run
    served,         \* per connection: requests received so far
    pc,             \* per connection: where its request stands
    req,            \* per connection: the request as received
    sharpInstance,  \* per connection: the handler's sharp instance
    ctl,            \* per connection: the locals of ensureMaxSize / fastOptimize
    enc,            \* per connection: the encodes (toBuffer calls) of the request
    log,            \* per connection: the console output of the controller
    res             \* per connection: the response sent

vars == <<active, served, pc, req, sharpInstance, ctl, enc, log, res>>

\* no sharp instance yet
NoInstance ==
    [made |-> FALSE, input |-> "none", width |-> -1, height |-> -1, fit |-> <<>>]

NoBuffer == [id |-> 0, len |-> 0]

NoCtl ==
    [quality |-> 0, width |-> Null, attempts |-> 0, buffer |-> NoBuffer,
     targetWidth |-> 0, returned |-> NoBuffer]

\* count: toBuffer calls started; failed: the call that rejected (0: none);
\* the other fields describe the latest call; input: what its instance
\* decodes ("upload": req.file.buffer, "output": a buffer toBuffer returned)
NoEnc ==
    [count |-> 0, failed |-> 0, input |-> "none", encoder |-> <<>>, quality |-> 0,
     outW |-> 0, outH |-> 0]

\* lines: 'Tentative' lines written; last: the fields of the latest one;
\* warned: the 'Impossible de reduire' warning was written
NoLog ==
    [lines |-> 0, last |-> [attempt |-> 0, quality |-> 0, width |-> Null, size |-> 0],
     warned |-> FALSE]

NoResponse ==
    [status |-> 0, kind |-> "none", contentType |-> <<>>, under9MB |-> "none",
     body |-> NoBuffer, error |-> "none"]

\* mutation of Locals: quality, width, buffer and attempts are declared once,
\* outside the function, and every invocation uses them
SharedLocals(r) == 1

\* the activation that holds the locals of the controller called for the
\* request of connection r: quality, width, buffer and attempts are declared
\* with let inside the function, so every call has its own
Locals(r) == r

Init ==
    /\ active = {1}
    /\ served = [r \in ReqIds |-> 0]
    /\ pc = [r \in ReqIds |-> "idle"]
    /\ req = [r \in ReqIds |-> NoRequest]
    /\ sharpInstance = [r \in ReqIds |-> NoInstance]
    /\ ctl = [r \in ReqIds |-> NoCtl]
    /\ enc = [r \in ReqIds |-> NoEnc]
    /\ log = [r \in ReqIds |-> NoLog]
    /\ res = [r \in ReqIds |-> NoResponse]

(***************************************************************************)
(* Arrival of a request and the multer middleware                          *)
(***************************************************************************)
\* a client sends POST /optimize, /resize or /convert to one of the builds
Arrive(r) ==
    /\ r \in active
    /\ pc[r] = "idle"
    /\ served[r] < MaxRequests
    /\ \E v \in Variants, rt \in Routes, q \in QualityFields, fm \in FormatFields :
         \E f \in (IF v = "fast" THEN Files \cup LargeFiles ELSE Files),
            w \in (IF rt = "resize" THEN WidthFields ELSE {Undef}),
            h \in (IF rt = "resize" THEN HeightFields ELSE {Undef}),
            ft \in (IF rt = "resize" /\ v = "iterative" THEN FitFields ELSE {Undef}) :
           req' = [req EXCEPT ![r] =
                     [variant |-> v, route |-> rt, file |-> f, quality |-> q,
                      format |-> fm, width |-> w, height |-> h, fit |-> ft]]
    /\ (active # {1}) => (req'[r] \in ConcurrentRequests)
    /\ served' = [served EXCEPT ![r] = @ + 1]
    /\ pc' = [pc EXCEPT ![r] = "upload"]
    /\ sharpInstance' = [sharpInstance EXCEPT ![r] = NoInstance]
    /\ ctl' = [ctl EXCEPT ![r] = NoCtl]
    /\ enc' = [enc EXCEPT ![r] = NoEnc]
    /\ log' = [log EXCEPT ![r] = NoLog]
    /\ res' = [res EXCEPT ![r] = NoResponse]
    /\ UNCHANGED active

\* res.status(code).json({ error: message })
JsonError(code, message) ==
    [status |-> code, kind |-> "json", contentType |-> <<>>, under9MB |-> "none",
     body |-> NoBuffer, error |-> message]

\* fileFilter: cb(null, true) for an image, cb(new Error(...), false) otherwise
fileFilter(file) == startsWith(file.mimetype, <<"i","m","a","g","e","/">>)

\* limits.fileSize: a file part of more than fileSize bytes raises
\* MulterError LIMIT_FILE_SIZE
ExceedsLimit(file) == file.size > fileSize

\* the error-handling middleware: 400 for LIMIT_FILE_SIZE, 500 otherwise
ErrorMiddleware(error) ==
    IF error = "LIMIT_FILE_SIZE"
    THEN JsonError(400, "Le fichier est trop volumineux (max 500MB)")
    ELSE JsonError(500, error)

\* upload.single('image'): multer calls fileFilter when the file part
\* starts, from its headers, and counts the bytes against limits.fileSize
\* only while it reads an accepted part; either error goes to the error
\* middleware and the route handler is not called
Upload(r) ==
    /\ r \in active
    /\ pc[r] = "upload"
    /\ LET file == req[r].file IN
       IF file.present /\ ~fileFilter(file)
       THEN /\ res' = [res EXCEPT ![r] = ErrorMiddleware("Le fichier doit etre une image")]
            /\ pc' = [pc EXCEPT ![r] = "done"]
       ELSE IF file.present /\ ExceedsLimit(file)
       THEN /\ res' = [res EXCEPT ![r] = ErrorMiddleware("LIMIT_FILE_SIZE")]
            /\ pc' = [pc EXCEPT ![r] = "done"]
       ELSE /\ pc' = [pc EXCEPT ![r] = "handler"]
            /\ UNCHANGED res
    /\ UNCHANGED <<active, served, req, sharpInstance, ctl, enc, log>>

(***************************************************************************)
(* sharp: the options of an instance and the dimensions of its output      *)
(***************************************************************************)
\* the fit names sharp accepts
FitNames ==
    { <<"c","o","v","e","r">>, <<"c","o","n","t","a","i","n">>, <<"f","i","l","l">>,
      <<"i","n","s","i","d","e">>, <<"o","u","t","s","i","d","e">> }

\* sharp(req.file.buffer, {...}): a lazy instance on the uploaded bytes,
\* nothing is decoded yet
sharp ==
    [made |-> TRUE, input |-> "upload", width |-> -1, height |-> -1,
     fit |-> <<"c","o","v","e","r">>]

\* resize({ width: w, height: h, fit }) throws on a width or height that is
\* given (not null) and not a positive integer, and on an unknown fit
resizeThrows(w, h, fit) ==
    \/ w.t = "nan" \/ (w.t = "num" /\ w.n <= 0)
    \/ h.t = "nan" \/ (h.t = "num" /\ h.n <= 0)
    \/ (fit # <<>> /\ fit \notin FitNames)

\* resize({ width: w, height: h, fit, withoutEnlargement: true }) on an
\* instance: the options object sets the width when it gives one; the height
\* is reset and then set when the object gives one; a fit that is not given
\* stays as it was
resize(inst, w, h, fit) ==
    [inst EXCEPT !.width  = IF w.t = "num" THEN w.n ELSE @,
                 !.height = IF h.t = "num" THEN h.n ELSE -1,
                 !.fit    = IF fit # <<>> THEN fit ELSE @]

\* a / b rounded to the nearest integer, at least 1
RoundDiv(a, b) ==
    LET q == (2 * a + b) \div (2 * b) IN IF q < 1 THEN 1 ELSE q

\* the dimensions of the output of an instance on an nw x nh image; every
\* resize of the program sets withoutEnlargement, so nothing is scaled up
OutDims(nw, nh, inst) ==
    LET w    == inst.width
        h    == inst.height
        fill == inst.fit = <<"f","i","l","l">>
        byW  == IF w >= nw THEN <<nw, nh>>
                ELSE IF fill THEN <<w, nh>> ELSE <<w, RoundDiv(nh * w, nw)>>
        byH  == IF h >= nh THEN <<nw, nh>>
                ELSE IF fill THEN <<nw, h>> ELSE <<RoundDiv(nw * h, nh), h>>
    IN  IF w = -1 /\ h = -1 THEN <<nw, nh>>
        ELSE IF h = -1 THEN byW
        ELSE IF w = -1 THEN byH
        ELSE IF fill THEN <<IF w >= nw THEN nw ELSE w, IF h >= nh THEN nh ELSE h>>
        ELSE IF w * nh <= h * nw THEN byW ELSE byH

\* switch (format.toLowerCase()): the encoder the switch selects; no case
\* matches another format and there is no default, so the instance keeps the
\* format of the input
FormatCase(format) ==
    LET f == toLowerCase(format) IN
    IF f \in {<<"j","p","e","g">>, <<"j","p","g">>} THEN <<"j","p","e","g">>
    ELSE IF f \in {<<"p","n","g">>, <<"w","e","b","p">>, <<"a","v","i","f">>} THEN f
    ELSE <<"i","n","p","u","t">>

\* instance.jpeg/png/webp/avif({ quality }) throws on a quality outside 1..100
formatThrows(format, quality) ==
    /\ FormatCase(format) # <<"i","n","p","u","t">>
    /\ quality \notin 1..100

\* the sizes toBuffer() resolves with in the model: within the budget, the
\* budget exactly, one byte over, four times over
EncodedSizes == { 4096, MAX_OUTPUT_SIZE, MAX_OUTPUT_SIZE + 1, 4 * MAX_OUTPUT_SIZE }

(***************************************************************************)
(* The route handlers, up to the call of the controller                    *)
(***************************************************************************)
\* parseInt(req.body.quality) || 80
QualityOf(rq) == OrElse(parseInt(rq.quality), Num(80)).n

\* req.body.format || 'webp' (iterative build), || 'jpeg' (fast build)
FormatOf(rq) ==
    IF TruthyStr(rq.format) THEN rq.format.s
    ELSE IF rq.variant = "iterative" THEN <<"w","e","b","p">>
    ELSE <<"j","p","e","g">>

\* req.body.fit || 'inside'
FitOf(rq) == IF TruthyStr(rq.fit) THEN rq.fit.s ELSE <<"i","n","s","i","d","e">>

\* mutation of HandlerCatch: res.json(...) without status(500)
HandlerCatchNoStatus(route) == JsonError(200, "Erreur")

\* the catch block of a route handler: 500 with the message of the route
HandlerCatch(route) ==
    IF route = "optimize" THEN JsonError(500, "Erreur lors de l'optimisation de l'image")
    ELSE IF route = "resize" THEN JsonError(500, "Erreur lors du redimensionnement de l'image")
    ELSE JsonError(500, "Erreur lors de la conversion de l'image")

\* if (!req.file) return res.status(400).json(...)
HandlerNoFile(r) ==
    /\ r \in active
    /\ pc[r] = "handler"
    /\ ~req[r].file.present
    /\ res' = [res EXCEPT ![r] = JsonError(400, "Aucune image fournie")]
    /\ pc' = [pc EXCEPT ![r] = "done"]
    /\ UNCHANGED <<active, served, req, sharpInstance, ctl, enc, log>>

(***************************************************************************)
(* ensureMaxSize (iterative build)                                         *)
(***************************************************************************)
\* mutation of WithinBudget: < for <=
WithinBudgetStrict(len) == len < MAX_OUTPUT_SIZE

\* mutation of WithinBudget: a budget of 10 MiB
WithinBudgetTenMB(len) == len <= 10 * 1024 * 1024

\* mutation of WithinBudget: the size test never succeeds
WithinBudgetNever(len) == len < 0

\* buffer.length <= MAX_OUTPUT_SIZE
WithinBudget(len) == len <= MAX_OUTPUT_SIZE

\* mutation of LoopContinues: <= for <
LoopContinuesOffByOne(attempts) == attempts <= maxAttempts

\* while (attempts < maxAttempts)
LoopContinues(attempts) == attempts < maxAttempts

\* mutation of Adjust: the width is shrunk while it is above 1000
AdjustShrinksAboveThousand(quality, width) ==
    IF quality > 60 THEN [quality |-> quality - 10, width |-> width]
    ELSE IF ~Truthy(width) THEN [quality |-> quality, width |-> Num(8000)]
    ELSE IF width.n > 1000 THEN [quality |-> quality, width |-> Num((width.n * 8) \div 10)]
    ELSE [quality |-> IF quality - 5 > 50 THEN quality - 5 ELSE 50, width |-> width]

\* mutation of Adjust: the width is introduced before the quality is lowered
AdjustWidthFirst(quality, width) ==
    IF ~Truthy(width) THEN [quality |-> quality, width |-> Num(8000)]
    ELSE IF quality > 60 THEN [quality |-> quality - 10, width |-> width]
    ELSE IF width.n > 2000 THEN [quality |-> quality, width |-> Num((width.n * 8) \div 10)]
    ELSE [quality |-> IF quality - 5 > 50 THEN quality - 5 ELSE 50, width |-> width]

\* mutation of Adjust: the width branch scales by 1.2 for 0.8
AdjustGrowsWidth(quality, width) ==
    IF quality > 60 THEN [quality |-> quality - 10, width |-> width]
    ELSE IF ~Truthy(width) THEN [quality |-> quality, width |-> Num(8000)]
    ELSE IF width.n > 2000 THEN [quality |-> quality, width |-> Num((width.n * 12) \div 10)]
    ELSE [quality |-> IF quality - 5 > 50 THEN quality - 5 ELSE 50, width |-> width]

\* mutation of Adjust: the last branch lowers quality by 5 with no floor
AdjustNoFloor(quality, width) ==
    IF quality > 60 THEN [quality |-> quality - 10, width |-> width]
    ELSE IF ~Truthy(width) THEN [quality |-> quality, width |-> Num(8000)]
    ELSE IF width.n > 2000 THEN [quality |-> quality, width |-> Num((width.n * 8) \div 10)]
    ELSE [quality |-> quality - 5, width |-> width]

\* the adjustment after an over-budget encode: quality first, then the
\* introduction of a width, then the shrinking of the width, then quality
Adjust(quality, width) ==
    IF quality > 60 THEN [quality |-> quality - 10, width |-> width]
    ELSE IF ~Truthy(width) THEN [quality |-> quality, width |-> Num(8000)]
    ELSE IF width.n > 2000 THEN [quality |-> quality, width |-> Num((width.n * 8) \div 10)]
    ELSE [quality |-> IF quality - 5 > 50 THEN quality - 5 ELSE 50, width |-> width]

\* mutation of clone: the new instance is built on a buffer toBuffer()
\* returned, not on the input of the instance
cloneOfOutput(inst) == [inst EXCEPT !.input = "output"]

\* sharpInstance.clone(): a new instance on the same input with the same
\* options; what is called on the clone leaves sharpInstance as it is
clone(inst) == inst

\* the instance of one attempt: sharpInstance.clone(), resized when width is truthy
AttemptInstance(inst, width) ==
    IF Truthy(width) THEN resize(clone(inst), width, Null, <<>>) ELSE clone(inst)

\* the synchronous part of an attempt throws: resize on a bad width, or the
\* format call on a bad quality
AttemptThrows(format, quality, width) ==
    \/ (Truthy(width) /\ resizeThrows(width, Null, <<>>))
    \/ formatThrows(format, quality)

\* instance.toBuffer() is called: the encode in flight
StartEncode(e, rq, inst, quality) ==
    LET d == OutDims(rq.file.nw, rq.file.nh, inst) IN
    [count |-> e.count + 1, failed |-> 0, input |-> inst.input,
     encoder |-> FormatCase(FormatOf(rq)),
     quality |-> quality, outW |-> d[1], outH |-> d[2]]

\* mutation of Exhausted: nothing is returned
ExhaustedReturnsNothing(c) == NoBuffer

\* the value returned once the loop is left with attempts = maxAttempts
Exhausted(c) == c.buffer

\* the while test and the body of the loop up to the await of toBuffer(),
\* with c the locals of ensureMaxSize, l the console output so far and inst
\* the instance the handler passed
EnsureLoop(r, c, l, inst) ==
    IF LoopContinues(c.attempts)
    THEN IF AttemptThrows(FormatOf(req[r]), c.quality, c.width)
         THEN /\ res' = [res EXCEPT ![r] = HandlerCatch(req[r].route)]
              /\ pc' = [pc EXCEPT ![r] = "done"]
              /\ ctl' = [ctl EXCEPT ![Locals(r)] = c]
              /\ log' = [log EXCEPT ![r] = l]
              /\ UNCHANGED enc
         ELSE /\ enc' = [enc EXCEPT ![r] =
                           StartEncode(@, req[r], AttemptInstance(inst, c.width), c.quality)]
              /\ pc' = [pc EXCEPT ![r] = "encoding"]
              /\ ctl' = [ctl EXCEPT ![Locals(r)] = c]
              /\ log' = [log EXCEPT ![r] = l]
              /\ UNCHANGED res
    ELSE /\ ctl' = [ctl EXCEPT ![Locals(r)] = [c EXCEPT !.returned = Exhausted(c)]]
         /\ log' = [log EXCEPT ![r] = [l EXCEPT !.warned = TRUE]]
         /\ pc' = [pc EXCEPT ![r] = "respond"]
         /\ UNCHANGED <<enc, res>>

\* the width the route passes as maxWidth: none for /optimize and /convert,
\* parseInt(req.body.width) for /resize
MaxWidthIterative(rq) ==
    IF rq.route = "resize" THEN parseInt(rq.width) ELSE Null

\* the handler's instance: for /resize with a truthy width or height,
\* resize({ width: width || null, height: height || null, fit })
HandlerResizes(rq) ==
    /\ rq.route = "resize"
    /\ (Truthy(parseInt(rq.width)) \/ Truthy(parseInt(rq.height)))

\* the handlers of the iterative build, from the parsing of the fields to the
\* first await of toBuffer() inside ensureMaxSize
HandlerIterative(r) ==
    /\ r \in active
    /\ pc[r] = "handler"
    /\ req[r].file.present
    /\ req[r].variant = "iterative"
    /\ LET rq == req[r]
           w  == OrElse(parseInt(rq.width), Null)
           h  == OrElse(parseInt(rq.height), Null)
       IN  IF HandlerResizes(rq) /\ resizeThrows(w, h, FitOf(rq))
           THEN /\ sharpInstance' = [sharpInstance EXCEPT ![r] = sharp]
                /\ res' = [res EXCEPT ![r] = HandlerCatch(rq.route)]
                /\ pc' = [pc EXCEPT ![r] = "done"]
                /\ UNCHANGED <<ctl, enc, log>>
           ELSE LET inst == IF HandlerResizes(rq) THEN resize(sharp, w, h, FitOf(rq))
                            ELSE sharp
                IN  /\ sharpInstance' = [sharpInstance EXCEPT ![r] = inst]
                    /\ EnsureLoop(r, [NoCtl EXCEPT !.quality = QualityOf(rq),
                                                   !.width = MaxWidthIterative(rq)],
                                  NoLog, inst)
    /\ UNCHANGED <<active, served, req>>

\* toBuffer() resolves inside ensureMaxSize: the size test, the adjustment,
\* the log line, and the next turn of the loop up to its await
EnsureResume(r) ==
    /\ r \in active
    /\ pc[r] = "encoding"
    /\ req[r].variant = "iterative"
    /\ \E len \in EncodedSizes :
         LET buffer == [id |-> enc[r].count, len |-> len]
             c      == ctl[Locals(r)]
         IN  IF WithinBudget(len)
             THEN /\ ctl' = [ctl EXCEPT ![Locals(r)] = [c EXCEPT !.buffer = buffer,
                                                         !.returned = buffer]]
                  /\ pc' = [pc EXCEPT ![r] = "respond"]
                  /\ UNCHANGED <<enc, log, res>>
             ELSE LET a  == Adjust(c.quality, c.width)
                      c2 == [c EXCEPT !.buffer = buffer, !.attempts = @ + 1,
                                      !.quality = a.quality, !.width = a.width]
                      l2 == [log[r] EXCEPT !.lines = @ + 1,
                                           !.last = [attempt |-> c2.attempts,
                                                     quality |-> c2.quality,
                                                     width |-> c2.width,
                                                     size |-> len]]
                  IN  EnsureLoop(r, c2, l2, sharpInstance[r])
    /\ UNCHANGED <<active, served, req, sharpInstance>>

\* toBuffer() rejects (the input cannot be decoded, the codec fails): the
\* catch of ensureMaxSize rethrows, fastOptimize lets it through, and the
\* catch of the handler answers 500
ToBufferRejects(r) ==
    /\ r \in active
    /\ pc[r] \in {"encoding", "encoding1", "encoding2"}
    /\ enc' = [enc EXCEPT ![r].failed = enc[r].count]
    /\ res' = [res EXCEPT ![r] = HandlerCatch(req[r].route)]
    /\ pc' = [pc EXCEPT ![r] = "done"]
    /\ UNCHANGED <<active, served, req, sharpInstance, ctl, log>>

(***************************************************************************)
(* fastOptimize (fast build)                                               *)
(***************************************************************************)
\* the width the route passes as maxWidth: none for /optimize and /convert,
\* width || height for /resize
MaxWidthFast(rq) ==
    IF rq.route = "resize"
    THEN (IF Truthy(parseInt(rq.width)) THEN parseInt(rq.width) ELSE parseInt(rq.height))
    ELSE Null

Min(a, b) == IF a < b THEN a ELSE b

\* mutation of TargetWidth: no cap by the pixel count
TargetWidthUncapped(maxWidth, nw, nh) == OrElse(maxWidth, Num(nw)).n

\* targetWidth before the first encode: maxWidth || metadata.width, capped
\* by the pixel count of the original
TargetWidth(maxWidth, nw, nh) ==
    LET originalPixels == nw * nh
        targetWidth    == OrElse(maxWidth, Num(nw)).n
    IN  IF originalPixels > 100000000 THEN Min(targetWidth, 10000)
        ELSE IF originalPixels > 50000000 THEN Min(targetWidth, 12000)
        ELSE IF originalPixels > 20000000 THEN Min(targetWidth, 15000)
        ELSE targetWidth

\* Math.floor(targetWidth * (Math.sqrt(MAX_OUTPUT_SIZE / len) * 0.95)) for the
\* over-budget sizes of EncodedSizes and 1 <= targetWidth <= 20000: the
\* ratio is 0.475 for four times the budget, and just under 0.95 for one
\* byte over it (the products themselves do not fit 32-bit integers)
ReductionWidth(targetWidth, len) ==
    IF len = 4 * MAX_OUTPUT_SIZE THEN (19 * targetWidth) \div 40
    ELSE (19 * targetWidth - 1) \div 20

\* Math.max(60, Math.floor(quality * 0.85))
ReductionQuality(quality) ==
    LET q == (quality * 85) \div 100 IN IF q > 60 THEN q ELSE 60

\* the handlers of the fast build, up to the await of metadata()
HandlerFast(r) ==
    /\ r \in active
    /\ pc[r] = "handler"
    /\ req[r].file.present
    /\ req[r].variant = "fast"
    /\ sharpInstance' = [sharpInstance EXCEPT ![r] = sharp]
    /\ ctl' = [ctl EXCEPT ![Locals(r)] = [NoCtl EXCEPT !.quality = QualityOf(req[r]),
                                               !.width = MaxWidthFast(req[r])]]
    /\ pc' = [pc EXCEPT ![r] = "metadata"]
    /\ UNCHANGED <<active, served, req, enc, log, res>>

\* metadata() rejects: the input cannot be read as an image
MetadataRejects(r) ==
    /\ r \in active
    /\ pc[r] = "metadata"
    /\ res' = [res EXCEPT ![r] = HandlerCatch(req[r].route)]
    /\ pc' = [pc EXCEPT ![r] = "done"]
    /\ UNCHANGED <<active, served, req, sharpInstance, ctl, enc, log>>

\* metadata() resolves: the target width, the first instance and its encode
MetadataResolves(r) ==
    /\ r \in active
    /\ pc[r] = "metadata"
    /\ LET rq   == req[r]
           tw   == TargetWidth(ctl[Locals(r)].width, rq.file.nw, rq.file.nh)
           inst == IF tw < rq.file.nw
                   THEN resize(clone(sharpInstance[r]), Num(tw), Null, <<>>)
                   ELSE clone(sharpInstance[r])
       IN  /\ ctl' = [ctl EXCEPT ![Locals(r)].targetWidth = tw]
           /\ IF \/ (tw < rq.file.nw /\ resizeThrows(Num(tw), Null, <<>>))
                 \/ formatThrows(FormatOf(rq), ctl[Locals(r)].quality)
              THEN /\ res' = [res EXCEPT ![r] = HandlerCatch(rq.route)]
                   /\ pc' = [pc EXCEPT ![r] = "done"]
                   /\ UNCHANGED enc
              ELSE /\ enc' = [enc EXCEPT ![r] = StartEncode(@, rq, inst, ctl[Locals(r)].quality)]
                   /\ pc' = [pc EXCEPT ![r] = "encoding1"]
                   /\ UNCHANGED res
    /\ UNCHANGED <<active, served, req, sharpInstance, log>>

\* the first toBuffer() resolves: returned when within the budget, otherwise
\* the width and the quality are reduced once and the second encode starts
FastResume1(r) ==
    /\ r \in active
    /\ pc[r] = "encoding1"
    /\ \E len \in EncodedSizes :
         LET buffer == [id |-> enc[r].count, len |-> len]
             c      == ctl[Locals(r)]
             rq     == req[r]
         IN  IF WithinBudget(len)
             THEN /\ ctl' = [ctl EXCEPT ![Locals(r)] = [c EXCEPT !.buffer = buffer,
                                                         !.returned = buffer]]
                  /\ pc' = [pc EXCEPT ![r] = "respond"]
                  /\ UNCHANGED <<enc, res>>
             ELSE LET tw == ReductionWidth(c.targetWidth, len)
                      q  == ReductionQuality(c.quality)
                  IN  /\ ctl' = [ctl EXCEPT ![Locals(r)] = [c EXCEPT !.buffer = buffer,
                                                             !.targetWidth = tw,
                                                             !.quality = q]]
                      /\ IF \/ resizeThrows(Num(tw), Null, <<>>)
                            \/ formatThrows(FormatOf(rq), q)
                         THEN /\ res' = [res EXCEPT ![r] = HandlerCatch(rq.route)]
                              /\ pc' = [pc EXCEPT ![r] = "done"]
                              /\ UNCHANGED enc
                         ELSE /\ enc' = [enc EXCEPT ![r] =
                                    StartEncode(@, rq,
                                                resize(clone(sharpInstance[r]), Num(tw),
                                                       Null, <<>>),
                                                q)]
                              /\ pc' = [pc EXCEPT ![r] = "encoding2"]
                              /\ UNCHANGED res
    /\ UNCHANGED <<active, served, req, sharpInstance, log>>

\* mutation of FastReturn: the second buffer is returned only when it fits,
\* the first one otherwise
FastReturnIfFits(first, second) ==
    IF second.len <= MAX_OUTPUT_SIZE THEN second ELSE first

\* return buffer, after the second toBuffer() was assigned to it
FastReturn(first, second) == second

\* the second toBuffer() resolves: its buffer is returned as it is
FastResume2(r) ==
    /\ r \in active
    /\ pc[r] = "encoding2"
    /\ \E len \in EncodedSizes :
         LET buffer == [id |-> enc[r].count, len |-> len]
             c      == ctl[Locals(r)]
         IN  ctl' = [ctl EXCEPT ![Locals(r)] =
                       [c EXCEPT !.buffer = buffer,
                                 !.returned = FastReturn(c.buffer, buffer)]]
    /\ pc' = [pc EXCEPT ![r] = "respond"]
    /\ UNCHANGED <<active, served, req, sharpInstance, enc, log, res>>

(***************************************************************************)
(* The response                                                            *)
(***************************************************************************)
\* mutation of Under9MB: < for <=
Under9MBStrict(len) == IF len < MAX_OUTPUT_SIZE THEN "true" ELSE "false"

\* optimizedSize <= MAX_OUTPUT_SIZE ? 'true' : 'false'
Under9MB(len) == IF len <= MAX_OUTPUT_SIZE THEN "true" ELSE "false"

\* the controller returned: the headers are set and the buffer is sent
Respond(r) ==
    /\ r \in active
    /\ pc[r] = "respond"
    /\ res' = [res EXCEPT ![r] =
                 [status |-> 200, kind |-> "image",
                  contentType |-> <<"i","m","a","g","e","/">> \o FormatOf(req[r]),
                  under9MB |-> Under9MB(ctl[Locals(r)].returned.len),
                  body |-> ctl[Locals(r)].returned, error |-> "none"]]
    /\ pc' = [pc EXCEPT ![r] = "done"]
    /\ UNCHANGED <<active, served, req, sharpInstance, ctl, enc, log>>

\* the response is out: the request, its instance and its locals are
\* released, and the connection may carry another request
Finish(r) ==
    /\ r \in active
    /\ pc[r] = "done"
    /\ pc' = [pc EXCEPT ![r] = "idle"]
    /\ req' = [req EXCEPT ![r] = NoRequest]
    /\ sharpInstance' = [sharpInstance EXCEPT ![r] = NoInstance]
    /\ ctl' = [ctl EXCEPT ![r] = NoCtl]
    /\ enc' = [enc EXCEPT ![r] = NoEnc]
    /\ log' = [log EXCEPT ![r] = NoLog]
    /\ res' = [res EXCEPT ![r] = NoResponse]
    /\ UNCHANGED <<active, served>>

(***************************************************************************)
(* Specification                                                           *)
(***************************************************************************)
Next ==
    \E r \in ReqIds :
        \/ Arrive(r)
        \/ Upload(r)
        \/ HandlerNoFile(r)
        \/ HandlerIterative(r)
        \/ EnsureResume(r)
        \/ ToBufferRejects(r)
        \/ HandlerFast(r)
        \/ MetadataRejects(r)
        \/ MetadataResolves(r)
        \/ FastResume1(r)
        \/ FastResume2(r)
        \/ Respond(r)
        \/ Finish(r)

Spec == Init /\ [][Next]_vars

\* two clients are connected: the handlers of their requests interleave at
\* every await
InitConcurrent ==
    /\ active = {1, 2}
    /\ served = [r \in ReqIds |-> 0]
    /\ pc = [r \in ReqIds |-> "idle"]
    /\ req = [r \in ReqIds |-> NoRequest]
    /\ sharpInstance = [r \in ReqIds |-> NoInstance]
    /\ ctl = [r \in ReqIds |-> NoCtl]
    /\ enc = [r \in ReqIds |-> NoEnc]
    /\ log = [r \in ReqIds |-> NoLog]
    /\ res = [r \in ReqIds |-> NoResponse]

SpecConcurrent == InitConcurrent /\ [][Next]_vars

\* the promise of a toBuffer() call in flight settles: it resolves or rejects
Settle(r) ==
    \/ EnsureResume(r)
    \/ ToBufferRejects(r)
    \/ FastResume1(r)
    \/ FastResume2(r)

\* every encode call eventually completes, and the event loop then runs the
\* continuation of the await
SpecFair == Init /\ [][Next]_vars /\ \A r \in ReqIds : WF_vars(Settle(r))

(***************************************************************************)
(* Properties                                                              *)
(***************************************************************************)
Iterative(r) == req[r].variant = "iterative"

\* C1: one invocation of ensureMaxSize performs at most 15 encodes, whatever
\* sizes the encoder returns.
C1_AtMostFifteenEncodes ==
    \A r \in ReqIds : Iterative(r) => enc[r].count <= 15

C1_Witness ==
    \E r \in ReqIds :
        /\ Iterative(r) /\ pc[r] = "respond"
        /\ enc[r].count = 15 /\ ctl[r].returned.id = 15

\* C2: when the first encode of an invocation of ensureMaxSize resolves with
\* a size within the budget, the invocation returns at once with the buffer
\* of that encode, and a request answered with the buffer of the first
\* encode has performed exactly one encode.
C2_FirstFitReturnsAtOnce ==
    [][\A r \in ReqIds :
         /\ ( /\ Iterative(r) /\ pc[r] = "encoding"
              /\ ctl[r].buffer.id = 0 /\ ctl'[r].buffer.id = 1
              /\ ctl'[r].buffer.len <= MAX_OUTPUT_SIZE )
            => ( /\ pc'[r] = "respond"
                 /\ enc'[r].count = 1
                 /\ ctl'[r].returned = ctl'[r].buffer )
         /\ ( /\ Iterative(r) /\ pc[r] = "respond" /\ ctl[r].returned.id = 1 )
            => ( /\ enc'[r].count = 1
                 /\ res'[r].body = ctl[r].returned )]_vars

C2_Witness ==
    \E r \in ReqIds :
        /\ Iterative(r) /\ pc[r] = "done" /\ enc[r].count = 1
        /\ res[r].body.id = 1 /\ res[r].body.len = MAX_OUTPUT_SIZE

\* C3: when all 15 encodes of an invocation of ensureMaxSize are over the
\* budget, the invocation returns the buffer of the 15th encode and the
\* handler answers 200 with that buffer and X-Under-9MB: false.
C3_ExhaustedReturnsLast ==
    \A r \in ReqIds :
        ( /\ Iterative(r) /\ pc[r] \in {"respond", "done"}
          /\ enc[r].count = 15 /\ enc[r].failed = 0
          /\ ctl[r].buffer.len > MAX_OUTPUT_SIZE )
        => /\ ctl[r].returned = ctl[r].buffer
           /\ ctl[r].returned.id = 15
           /\ pc[r] = "done" =>
                /\ res[r].status = 200 /\ res[r].kind = "image"
                /\ res[r].body = ctl[r].returned
                /\ res[r].under9MB = "false"

C3_Witness ==
    \E r \in ReqIds :
        /\ Iterative(r) /\ pc[r] = "done" /\ enc[r].count = 15
        /\ res[r].status = 200 /\ res[r].body.id = 15
        /\ res[r].body.len = 4 * MAX_OUTPUT_SIZE

C5_HeaderTruthful ==
    \A r \in ReqIds :
        res[r].kind = "image" =>
            /\ res[r].under9MB \in {"true", "false"}
            /\ res[r].under9MB = "true" <=> res[r].body.len <= 9 * 1024 * 1024

C5_Witness ==
    \E r \in ReqIds :
        /\ req[r].variant = "fast" /\ req[r].route = "convert"
        /\ res[r].kind = "image" /\ res[r].under9MB = "false"
        /\ res[r].body.len = MAX_OUTPUT_SIZE + 1

\* the request names a format that no case of the switch recognizes
UnknownFormat(rq) == FormatCase(FormatOf(rq)) = <<"i","n","p","u","t">>

\* the upload passes the multer middleware: an image within the size limit
UploadAccepted(rq) ==
    /\ rq.file.present
    /\ SubSeq(rq.file.mimetype, 1, 6) = <<"i","m","a","g","e","/">>
    /\ rq.file.size <= 500 * 1024 * 1024

\* C6 as stated: a request (with an acceptable upload) whose format is not a
\* recognized one performs no encode, gets no image back, and is answered
\* with a client error.
C6_UnknownFormatFails ==
    \A r \in ReqIds :
        (pc[r] # "idle" /\ UploadAccepted(req[r]) /\ UnknownFormat(req[r])) =>
            /\ enc[r].count = 0
            /\ res[r].kind # "image"
            /\ pc[r] = "done" => res[r].status \in 400..499

\* C7 as stated: an upload of more than 500 MiB is answered with a client
\* error and nothing is decoded or encoded for it.
C7_UploadTooLargeRejected ==
    \A r \in ReqIds :
        (pc[r] # "idle" /\ req[r].file.present /\ req[r].file.size > 500 * 1024 * 1024) =>
            /\ enc[r].count = 0
            /\ ~sharpInstance[r].made
            /\ pc[r] \in {"upload", "done"}
            /\ pc[r] = "done" => res[r].status \in 400..499

\* the request gives a quality that does not read as an integer of 1..100
BadQuality(rq) ==
    /\ rq.quality.def
    /\ parseInt(rq.quality).t # "num" \/ parseInt(rq.quality).n \notin 1..100

\* C8 as stated: a request whose quality is not an integer of 1..100, or
\* whose format is not a recognized one, performs no encode.
C8_ValidatedBeforeEncode ==
    \A r \in ReqIds :
        (pc[r] # "idle" /\ (BadQuality(req[r]) \/ UnknownFormat(req[r]))) =>
            enc[r].count = 0

\* C9 as stated: for POST /resize, in both builds, the output of every
\* encode is no wider than the requested width, no taller than the
\* requested height, and no larger than the image uploaded.
C9_DimensionsAreUpperBounds ==
    \A r \in ReqIds :
        (req[r].route = "resize" /\ enc[r].count > 0) =>
            LET w == parseInt(req[r].width)
                h == parseInt(req[r].height)
            IN  /\ Truthy(w) => enc[r].outW <= w.n
                /\ Truthy(h) => enc[r].outH <= h.n
                /\ enc[r].outW <= req[r].file.nw
                /\ enc[r].outH <= req[r].file.nh

\* C10: once a toBuffer() call of an invocation has rejected, the request is
\* over: no buffer was returned, no further encode was started, and the
\* response is a 5xx without an image.
C10_EncodeFailureIsFatal ==
    \A r \in ReqIds :
        enc[r].failed # 0 =>
            /\ pc[r] = "done"
            /\ enc[r].count = enc[r].failed
            /\ ctl[r].returned = NoBuffer
            /\ res[r].status \in 500..599
            /\ res[r].kind = "json" /\ res[r].body = NoBuffer

C10_Witness ==
    \E r \in ReqIds :
        /\ Iterative(r) /\ enc[r].failed = 3 /\ pc[r] = "done"
        /\ ctl[r].buffer.id = 2

\* everything the program holds for the request of connection r
Local(r) == <<served[r], pc[r], req[r], sharpInstance[r], ctl[r], enc[r], log[r], res[r]>>

\* the parameters of the attempt that follows k over-budget attempts of an
\* invocation that starts from (quality, width) and runs alone
RECURSIVE AloneParams(_, _, _)
AloneParams(quality, width, k) ==
    IF k = 0 THEN [quality |-> quality, width |-> width]
    ELSE LET p == AloneParams(quality, width, k - 1) IN Adjust(p.quality, p.width)

\* the invocation of connection r is where it would be if it ran alone
AsAlone(r) ==
    (Iterative(r) /\ pc[r] \in {"encoding", "respond"}) =>
        LET p == AloneParams(QualityOf(req[r]), MaxWidthIterative(req[r]),
                             ctl[r].attempts)
        IN  /\ ctl[r].quality = p.quality
            /\ ctl[r].width = p.width
            /\ enc[r].count = (IF ctl[r].attempts = 15 THEN 15 ELSE ctl[r].attempts + 1)
            /\ log[r].lines = ctl[r].attempts
            /\ (pc[r] = "respond") => (ctl[r].returned = ctl[r].buffer
                                       /\ ctl[r].returned.id = enc[r].count)

\* C11: concurrent invocations of the controller share no mutable state: a
\* step of one invocation leaves everything of the other one as it was, and
\* under any interleaving the quality, width and attempt count of an
\* invocation, and the buffer it returns, are the ones of a run alone
C11_InvocationsIsolated ==
    /\ [](\A r \in ReqIds : AsAlone(r))
    /\ [][\A r, s \in ReqIds :
            (r # s /\ Local(r)' # Local(r)) => (Local(s)' = Local(s))]_vars

\* two invocations are in flight at different attempts
C11_Witness ==
    /\ active = {1, 2}
    /\ Iterative(1) /\ pc[1] = "encoding" /\ ctl[1].attempts = 2 /\ ctl[1].quality = 60
    /\ Iterative(2) /\ pc[2] = "encoding" /\ ctl[2].attempts = 9 /\ ctl[2].width = Num(2096)
    /\ req[1] = req[2]

Fast(r) == req[r].variant = "fast"

\* C12: fastOptimize performs at most two encodes: one when the first result
\* is within the budget, and it is returned; otherwise a second one, started
\* only after the first result was measured over the budget, and the second
\* result is returned whether or not it fits (an invocation in which a call
\* throws or rejects returns nothing).
C12_FastAtMostTwoEncodes ==
    /\ [](\A r \in ReqIds : Fast(r) =>
            /\ enc[r].count <= 2
            /\ (pc[r] = "encoding2") =>
                   /\ enc[r].count = 2
                   /\ ctl[r].buffer.id = 1 /\ ctl[r].buffer.len > 9 * 1024 * 1024
            /\ (pc[r] = "respond") =>
                   /\ ctl[r].returned.id = enc[r].count
                   /\ ctl[r].returned = ctl[r].buffer
                   /\ (enc[r].count = 1) => (ctl[r].returned.len <= 9 * 1024 * 1024)
            /\ (res[r].kind = "image") => (res[r].body = ctl[r].returned))
    /\ [][\A r \in ReqIds :
            (Fast(r) /\ pc[r] = "encoding1" /\ pc'[r] # "encoding1") =>
                LET first == ctl'[r].buffer IN
                \/ /\ pc'[r] = "respond" /\ enc'[r].count = 1
                   /\ first.id = 1 /\ first.len <= 9 * 1024 * 1024
                   /\ ctl'[r].returned = first
                \/ /\ pc'[r] = "encoding2" /\ enc'[r].count = 2
                   /\ first.id = 1 /\ first.len > 9 * 1024 * 1024
                   /\ ctl'[r].returned = NoBuffer
                \/ /\ pc'[r] = "done" /\ res'[r].status = 500
                   /\ enc'[r].count = 1 /\ ctl'[r].returned = NoBuffer ]_vars

\* the second encode is over the budget too, and is what fastOptimize returns
C12_Witness ==
    \E r \in ReqIds :
        /\ Fast(r) /\ pc[r] = "respond" /\ enc[r].count = 2
        /\ ctl[r].returned.id = 2 /\ ctl[r].returned.len > 9 * 1024 * 1024

\* C13 as stated: across the attempts of one invocation of ensureMaxSize the
\* quality is never below 50.
C13_QualityAtLeastFifty ==
    \A r \in ReqIds :
        (Iterative(r) /\ enc[r].count > 0) => (enc[r].quality >= 50)

\* C13: across the attempts of one invocation of ensureMaxSize no adjustment
\* lowers the quality to a value below 50: the quality of every attempt is
\* at least the smaller of 50 and the quality the invocation started with,
\* and a quality below 50 is one the caller asked for.
C13_QualityNotLoweredBelowFifty ==
    /\ [](\A r \in ReqIds :
            (Iterative(r) /\ enc[r].count > 0) =>
                /\ enc[r].quality >= Min(50, QualityOf(req[r]))
                /\ (enc[r].quality < 50) => (enc[r].quality = QualityOf(req[r])))
    /\ [][\A r \in ReqIds :
            (Iterative(r) /\ pc[r] = "encoding" /\ ctl'[r].quality < ctl[r].quality)
                => (ctl'[r].quality >= 50)]_vars

\* a caller's quality of 30 is used by the second attempt as it was given
C13_Witness ==
    \E r \in ReqIds :
        /\ Iterative(r) /\ pc[r] = "encoding" /\ QualityOf(req[r]) = 30
        /\ enc[r].count = 2 /\ enc[r].quality = 30

\* connection r goes from one attempt of ensureMaxSize to the next one
NextAttempt(r) ==
    /\ Iterative(r)
    /\ pc[r] = "encoding" /\ pc'[r] = "encoding"
    /\ enc'[r].count = enc[r].count + 1

\* C14: no attempt of ensureMaxSize is retried with identical parameters:
\* after every over-budget attempt the next attempt's (quality, width)
\* differs from the previous attempt's.
C14_ParametersChange ==
    [][\A r \in ReqIds :
         NextAttempt(r) =>
             <<ctl'[r].quality, ctl'[r].width>> # <<ctl[r].quality, ctl[r].width>>]_vars

\* C15: across consecutive attempts of one invocation of ensureMaxSize the
\* width is non-increasing (no width counts as the largest) and, once the
\* quality has reached the floor of 50, the width strictly decreases at each
\* subsequent attempt.
C15_WidthDecreasesAtQualityFloor ==
    [][\A r \in ReqIds :
         NextAttempt(r) =>
             /\ Truthy(ctl[r].width) =>
                    (Truthy(ctl'[r].width) /\ ctl'[r].width.n <= ctl[r].width.n)
             /\ (ctl[r].quality = 50) =>
                    /\ Truthy(ctl'[r].width)
                    /\ Truthy(ctl[r].width) => (ctl'[r].width.n < ctl[r].width.n)]_vars

\* C16: once ensureMaxSize has a width constraint (the caller's maxWidth or
\* the 8000 it introduces), the width of a later attempt is never greater
\* than the width of an earlier one: from one attempt to the next neither the
\* width asked for nor the width of the output grows, and the width asked
\* for never exceeds the first constraint.
C16_WidthNeverGrows ==
    /\ [](\A r \in ReqIds :
            (Iterative(r) /\ pc[r] = "encoding" /\ Truthy(ctl[r].width)) =>
                LET maxWidth == MaxWidthIterative(req[r]) IN
                ctl[r].width.n <= (IF Truthy(maxWidth) THEN maxWidth.n ELSE 8000))
    /\ [][\A r \in ReqIds :
            (NextAttempt(r) /\ Truthy(ctl[r].width)) =>
                /\ Truthy(ctl'[r].width)
                /\ ctl'[r].width.n <= ctl[r].width.n
                /\ enc'[r].outW <= enc[r].outW]_vars

\* the caller's width of 3000 was shrunk to 2400 and the output is 2400 wide
C16_Witness ==
    \E r \in ReqIds :
        /\ Iterative(r) /\ pc[r] = "encoding"
        /\ MaxWidthIterative(req[r]) = Num(3000)
        /\ ctl[r].width = Num(2400) /\ enc[r].outW = 2400

\* the attempts of an invocation that starts from quality 80 and no width,
\* by the number of over-budget attempts before them
DefaultSchedule ==
    <<[quality |-> 80, width |-> Null], [quality |-> 70, width |-> Null],
      [quality |-> 60, width |-> Null], [quality |-> 60, width |-> Num(8000)],
      [quality |-> 60, width |-> Num(6400)], [quality |-> 60, width |-> Num(5120)]>>

\* C17: after an over-budget attempt at (q, w) ensureMaxSize chooses the next
\* parameters in strict priority order: (q - 10, w) if q > 60; else (q, 8000)
\* if there is no width; else (q, floor(0.8 w)) if w > 2000; else
\* (max(50, q - 5), w). The width is neither introduced nor shrunk while
\* q > 60, and from (80, none) the attempts use quality 80, 70, 60 and then
\* widths 8000, 6400, 5120.
C17_PriorityOrder ==
    /\ [][\A r \in ReqIds :
            NextAttempt(r) =>
                LET q  == ctl[r].quality
                    w  == ctl[r].width
                    q2 == ctl'[r].quality
                    w2 == ctl'[r].width
                IN  /\ ctl'[r].attempts = ctl[r].attempts + 1
                    /\ ctl'[r].buffer.len > 9 * 1024 * 1024
                    /\ (q > 60) => (q2 = q - 10 /\ w2 = w)
                    /\ (q <= 60 /\ ~Truthy(w)) => (q2 = q /\ w2 = Num(8000))
                    /\ (q <= 60 /\ Truthy(w) /\ w.n > 2000) =>
                           /\ q2 = q /\ w2.t = "num"
                           /\ 10 * w2.n <= 8 * w.n /\ 8 * w.n < 10 * (w2.n + 1)
                    /\ (q <= 60 /\ Truthy(w) /\ w.n <= 2000) =>
                           /\ w2 = w
                           /\ q2 >= 50 /\ q2 >= q - 5 /\ q2 \in {50, q - 5}
                    /\ enc'[r].quality = q2
                    /\ sharpInstance'[r] = sharpInstance[r]]_vars
    /\ [](\A r \in ReqIds :
            ( /\ Iterative(r) /\ pc[r] = "encoding"
              /\ QualityOf(req[r]) = 80 /\ MaxWidthIterative(req[r]) = Null
              /\ ctl[r].attempts < 6 ) =>
                /\ ctl[r].quality = DefaultSchedule[ctl[r].attempts + 1].quality
                /\ ctl[r].width = DefaultSchedule[ctl[r].attempts + 1].width
                /\ enc[r].quality = ctl[r].quality)

\* the sixth attempt of the default invocation: quality 60, width 5120
C17_Witness ==
    \E r \in ReqIds :
        /\ Iterative(r) /\ pc[r] = "encoding"
        /\ QualityOf(req[r]) = 80 /\ MaxWidthIterative(req[r]) = Null
        /\ enc[r].count = 6 /\ ctl[r].quality = 60 /\ ctl[r].width = Num(5120)

\* the width of the next attempt of connection r is smaller than the width
\* of this one
ShrinkStep(r) ==
    /\ NextAttempt(r)
    /\ Truthy(ctl[r].width) /\ Truthy(ctl'[r].width)
    /\ ctl'[r].width.n < ctl[r].width.n

\* C18 as stated: no shrink step of ensureMaxSize sets the width to a value
\* below 2000.
C18_ShrinkNotBelowTwoThousand ==
    [][\A r \in ReqIds : ShrinkStep(r) => (ctl'[r].width.n >= 2000)]_vars

\* C18: ensureMaxSize shrinks a width only while it is above 2000: a shrink
\* step starts from a width above 2000 and sets it to floor(0.8 * width),
\* which is at least 1600 and can be below 2000; a width of 2000 or less is
\* never shrunk, and a width the controller computed is never below 1600.
C18_ShrinkOnlyAboveTwoThousand ==
    /\ [][\A r \in ReqIds :
            /\ ShrinkStep(r) =>
                   /\ ctl[r].width.n > 2000
                   /\ ctl'[r].width.n >= 1600
                   /\ 10 * ctl'[r].width.n <= 8 * ctl[r].width.n
                   /\ 8 * ctl[r].width.n < 10 * (ctl'[r].width.n + 1)
            /\ (NextAttempt(r) /\ Truthy(ctl[r].width) /\ ctl[r].width.n <= 2000)
                   => (ctl'[r].width = ctl[r].width)]_vars
    /\ [](\A r \in ReqIds :
            ( /\ Iterative(r) /\ pc[r] = "encoding" /\ Truthy(ctl[r].width)
              /\ ctl[r].width # MaxWidthIterative(req[r]) ) => (ctl[r].width.n >= 1600))

\* the width went from 2096 to 1676, under 2000, and is used by an attempt
C18_Witness ==
    \E r \in ReqIds :
        /\ Iterative(r) /\ pc[r] = "encoding"
        /\ ctl[r].width = Num(1676) /\ enc[r].outW = 1676

\* an encode of the request of connection r is in flight
Encoding(r) == pc[r] \in {"encoding", "encoding1", "encoding2"}

\* C19: every encode of both controllers decodes the uploaded bytes: each
\* attempt works on a clone of the handler's instance, whose input is
\* req.file.buffer, never on the buffer of a previous attempt; and the
\* attempts leave the request's file and the handler's instance as they were.
C19_EncodesFromSource ==
    /\ [](\A r \in ReqIds :
            (enc[r].count > 0) =>
                (enc[r].input = "upload" /\ sharpInstance[r].input = "upload"))
    /\ [][\A r \in ReqIds :
            Encoding(r) =>
                (req'[r] = req[r] /\ sharpInstance'[r] = sharpInstance[r])]_vars

\* the second encode of fastOptimize, after a first buffer was produced
C19_Witness ==
    \E r \in ReqIds :
        /\ Fast(r) /\ pc[r] = "encoding2" /\ enc[r].input = "upload"
        /\ enc[r].count = 2 /\ ctl[r].buffer.id = 1

\* the invocation of ensureMaxSize for connection r has ended: it returned a
\* buffer (within the budget, or the last one after 15 attempts) or threw
Terminal(r) == pc[r] \in {"respond", "done"}

\* C20: when every encode call eventually completes, every invocation of
\* ensureMaxSize eventually ends: it returns a buffer within the budget,
\* returns the last buffer after 15 attempts, or throws. After it has ended
\* no further encode is started, and attempt n + 1 is started only once the
\* buffer of attempt n was measured over the budget.
C20_InvocationTerminates ==
    /\ \A r \in ReqIds : (Iterative(r) /\ pc[r] = "encoding") ~> Terminal(r)
    /\ [][\A r \in ReqIds :
            Iterative(r) =>
                /\ Terminal(r) => (enc'[r].count <= enc[r].count)
                /\ (enc[r].count >= 1 /\ enc'[r].count = enc[r].count + 1) =>
                       /\ pc[r] = "encoding"
                       /\ ctl'[r].buffer.id = enc[r].count
                       /\ ctl'[r].buffer.len > 9 * 1024 * 1024]_vars
    /\ [](\A r \in ReqIds :
            (Iterative(r) /\ pc[r] = "respond") =>
                \/ ctl[r].returned.len <= 9 * 1024 * 1024
                \/ ctl[r].attempts = 15 /\ ctl[r].returned.id = 15)

\* an invocation ended with success at its fourth attempt
C20_Witness ==
    \E r \in ReqIds :
        /\ Iterative(r) /\ pc[r] = "respond" /\ enc[r].count = 4
        /\ ctl[r].attempts = 3 /\ ctl[r].returned.id = 4
        /\ ctl[r].returned.len <= 9 * 1024 * 1024

\* C21: fastOptimize caps the target width from the pixel count of the
\* original before the first encode: at most 10000 above 100 MP, at most
\* 12000 above 50 MP, at most 15000 above 20 MP; and the target width never
\* exceeds the maxWidth it was called with, or the native width when it was
\* called with none. The first encode is no wider than the target width.
C21_TargetWidthCapped ==
    \A r \in ReqIds :
        (Fast(r) /\ pc[r] = "encoding1") =>
            LET nw       == req[r].file.nw
                pixels   == nw * req[r].file.nh
                maxWidth == MaxWidthFast(req[r])
                tw       == ctl[r].targetWidth
            IN  /\ enc[r].count = 1
                /\ (pixels > 100000000) => (tw <= 10000)
                /\ (pixels > 50000000) => (tw <= 12000)
                /\ (pixels > 20000000) => (tw <= 15000)
                /\ tw <= (IF Truthy(maxWidth) THEN maxWidth.n ELSE nw)
                /\ enc[r].outW <= tw

\* a 300 MP original with no width asked for: the first encode is in flight
\* at width 10000
C21_Witness ==
    \E r \in ReqIds :
        /\ Fast(r) /\ pc[r] = "encoding1"
        /\ req[r].file.nw = 20000 /\ req[r].file.nh = 15000
        /\ ~Truthy(MaxWidthFast(req[r]))
        /\ ctl[r].targetWidth = 10000 /\ enc[r].outW = 10000

\* the toBuffer() call in flight for connection r resolves in this step
EncodeResolves(r) ==
    /\ Iterative(r) /\ pc[r] = "encoding"
    /\ ctl'[r].buffer.id = enc[r].count
    /\ ctl[r].buffer.id # enc[r].count

\* C22: each encode attempt of ensureMaxSize is logged exactly once, a
\* successful one too, and the line carries the index, the quality and the
\* width of that attempt with the size that attempt produced.
C22_AttemptLoggedWithItsOwnValues ==
    [][\A r \in ReqIds :
         EncodeResolves(r) =>
             /\ log'[r].lines = log[r].lines + 1
             /\ log'[r].last = [attempt |-> enc[r].count,
                                quality |-> enc[r].quality,
                                width |-> ctl[r].width,
                                size |-> ctl'[r].buffer.len]]_vars

\* connection r goes from one encode of its controller to the next one
NextEncode(r) ==
    /\ Encoding(r)
    /\ enc[r].count >= 1
    /\ enc'[r].count = enc[r].count + 1

\* C23: in both controllers, for an initial quality in 1..100, the quality
\* of an attempt is never higher than the quality of the attempt before it.
C23_QualityNeverRaised ==
    [][\A r \in ReqIds :
         (NextEncode(r) /\ QualityOf(req[r]) \in 1..100) =>
             (enc'[r].quality <= enc[r].quality)]_vars
====
